---- MODULE Spec2Model ----
(***************************************************************************)
(* Defect status workflow of the defect-management frontend: the mock      *)
(* record store behind defectsAPI (services/api.ts), the transition lookup *)
(* of the workflow component (DefectWorkflow.tsx) and the callers that     *)
(* dispatch status changes and assignments (defectsSlice.ts thunks).       *)
(*                                                                         *)
(* A call is two steps, as in the code: the thunk is dispatched with its   *)
(* arguments fixed (the request is in flight while the API awaits its      *)
(* timer), then the body of the API method runs to completion in one step. *)
(***************************************************************************)
EXTENDS Integers, Sequences, FiniteSets, TLC

VARIABLES
    MOCK_DEFECTS,   \* the record store: id -> Defect (the tracked entry)
    writes,         \* auxiliary: id -> number of writes committed to the record
    now,            \* the clock read by new Date(), in units of 1/DayUnits day
    inflight,       \* requests dispatched whose API body has not run yet
    calls,          \* number of requests dispatched so far
    last,           \* the call completed last, with what the caller got back
    query,          \* transition lookup: the arguments of the lookup in progress
    answer,         \* transition lookup: what getAvailableTransitions returned
    history,        \* id -> the statusHistory the timeline of the defect is given
    reading,        \* the items the timeline showed when it was rendered last
    slice           \* the defects slice of the Redux store: defects, currentDefect

(* The code keeps no version of a record and passes no role to the API.    *)
(* writes counts the accepted writes of a record; a request records, as    *)
(* expected, the count its caller saw when the request was prepared, and   *)
(* as role the role of the signed-in user who dispatched it. Neither is    *)
(* read by any API method: they only let the properties say which state of *)
(* the record a request was prepared on and who asked.                     *)

vars ==
    <<MOCK_DEFECTS, writes, now, inflight, calls, last, query, answer, history,
      reading, slice>>

----------------------------------------------------------------------------
(* Bounds of the model *)

MaxCalls == 2       \* requests dispatched in one run
MaxInFlight == 2    \* requests in flight at once
MaxTime == 1        \* clock ticks in one run

(* 1000 * 60 * 60 * 24 ms, here in clock units: the clock counts half days *)
DayUnits == 2

----------------------------------------------------------------------------
(* Optional values: undefined is the empty sequence, a value v is <<v>> *)

None == <<>>
Some(v) == <<v>>

----------------------------------------------------------------------------
(* Data of the program *)

validStatuses == <<"new", "in_progress", "review", "closed", "cancelled">>

Statuses == {validStatuses[i] : i \in 1..Len(validStatuses)}

Roles == {"manager", "engineer", "observer"}

MOCK_ENGINEERS == {2, 3, 4, 5, 6, 7}

(* MOCK_DEFECTS[0]: new, assigned to engineer 2, due 2024-09-15 with      *)
(* days_remaining 7, updated 2024-09-05. The clock's 0 is 2024-09-08.      *)
MockDefect1 ==
    [status |-> "new", assignee |-> Some(2), due_date |-> Some(7 * DayUnits),
     days_remaining |-> Some(7), is_overdue |-> FALSE,
     updated_at |-> (0 - 3) * DayUnits]

(* Inputs the callers draw their arguments from *)
IdInputs == {1, 99}
StatusInputs == Statuses \cup {"invalid_status"}
AssigneeInputs == {3, 9}
DueInputs == {None, Some(0 - DayUnits), Some(DayUnits)}

----------------------------------------------------------------------------
(* Helpers *)

SeqToSet(s) == {s[i] : i \in 1..Len(s)}

(* Math.floor(a / b) for b > 0 *)
CeilRoundsDown(a, b) == a \div b

(* Math.ceil(a / b) for b > 0 *)
Ceil(a, b) == 0 - ((0 - a) \div b)

----------------------------------------------------------------------------
(* Transition lookup of the workflow component *)

(* The role argument left out of the call *)
NoRole == "undefined"

baseTransitions ==
    [s \in Statuses |->
        CASE s = "new" -> <<"in_progress", "cancelled">>
          [] s = "in_progress" -> <<"review", "cancelled">>
          [] s = "review" -> <<"closed", "in_progress", "cancelled">>
          [] s = "closed" -> <<"in_progress">>
          [] s = "cancelled" -> <<"new">>]

(* The lookup with the engineer's restriction applied to new and           *)
(* in_progress only: from the other statuses the base targets stay.        *)
getAvailableTransitionsEngineerFallsThrough(currentStatus, userRole) ==
    LET transitions == IF currentStatus \in DOMAIN baseTransitions
                       THEN baseTransitions[currentStatus]
                       ELSE <<>>
    IN  IF userRole = "observer" THEN <<>>
        ELSE IF userRole = "engineer" /\ currentStatus = "new"
             THEN <<"in_progress">>
        ELSE IF userRole = "engineer" /\ currentStatus = "in_progress"
             THEN <<"review">>
        ELSE transitions

getAvailableTransitions(currentStatus, userRole) ==
    LET transitions == IF currentStatus \in DOMAIN baseTransitions
                       THEN baseTransitions[currentStatus]
                       ELSE <<>>
    IN  IF userRole = "observer" THEN <<>>
        ELSE IF userRole = "engineer"
             THEN IF currentStatus = "new" THEN <<"in_progress">>
                  ELSE IF currentStatus = "in_progress" THEN <<"review">>
                  ELSE <<>>
             ELSE transitions

----------------------------------------------------------------------------
(* The API methods, as functions of the store D and the clock t: the       *)
(* outcome the caller gets and the store afterwards.                       *)

Ok == "ok"
ErrDefectNotFound == "Error: defect not found"
ErrInvalidStatus == "Error: invalid status"
ErrAssigneeNotFound == "Error: assignee not found"

Errors == {ErrDefectNotFound, ErrInvalidStatus, ErrAssigneeNotFound}

(* changeStatus without the validation of the status *)
changeStatusStoresAnything(D, id, status, t) ==
    IF id \notin DOMAIN D
    THEN [result |-> ErrDefectNotFound, store |-> D]
    ELSE [result |-> Ok,
          store |-> [D EXCEPT ![id] =
                        [D[id] EXCEPT !.status = status, !.updated_at = t]]]

(* changeStatus validating the status before it looks the defect up *)
changeStatusValidatesFirst(D, id, status, t) ==
    IF status \notin SeqToSet(validStatuses)
    THEN [result |-> ErrInvalidStatus, store |-> D]
    ELSE IF id \notin DOMAIN D
    THEN [result |-> ErrDefectNotFound, store |-> D]
    ELSE [result |-> Ok,
          store |-> [D EXCEPT ![id] =
                        [D[id] EXCEPT !.status = status, !.updated_at = t]]]

changeStatus(D, id, status, t) ==
    IF id \notin DOMAIN D
    THEN [result |-> ErrDefectNotFound, store |-> D]
    ELSE IF status \notin SeqToSet(validStatuses)
    THEN [result |-> ErrInvalidStatus, store |-> D]
    ELSE [result |-> Ok,
          store |-> [D EXCEPT ![id] =
                        [D[id] EXCEPT !.status = status, !.updated_at = t]]]

(* assign storing the due date before it looks the assignee up *)
assignWritesBeforeLookup(D, id, assigneeId, due_date, t) ==
    IF id \notin DOMAIN D
    THEN [result |-> ErrDefectNotFound, store |-> D]
    ELSE LET days_remaining == IF due_date # None
                               THEN Some(Ceil(due_date[1] - t, DayUnits))
                               ELSE None
             is_overdue == IF due_date # None
                           THEN days_remaining[1] < 0
                           ELSE FALSE
             dated == [D EXCEPT ![id] =
                          [D[id] EXCEPT !.due_date = due_date,
                                        !.days_remaining = days_remaining,
                                        !.is_overdue = is_overdue,
                                        !.updated_at = t]]
         IN  IF assigneeId \notin MOCK_ENGINEERS
             THEN [result |-> ErrAssigneeNotFound, store |-> dated]
             ELSE [result |-> Ok,
                   store |-> [dated EXCEPT ![id].assignee = Some(assigneeId)]]

(* assign moving a new defect to in_progress as it gets its assignee *)
assignStartsWork(D, id, assigneeId, due_date, t) ==
    IF id \notin DOMAIN D
    THEN [result |-> ErrDefectNotFound, store |-> D]
    ELSE IF assigneeId \notin MOCK_ENGINEERS
    THEN [result |-> ErrAssigneeNotFound, store |-> D]
    ELSE LET days_remaining == IF due_date # None
                               THEN Some(Ceil(due_date[1] - t, DayUnits))
                               ELSE None
             is_overdue == IF due_date # None
                           THEN days_remaining[1] < 0
                           ELSE FALSE
         IN  [result |-> Ok,
              store |-> [D EXCEPT ![id] =
                            [D[id] EXCEPT !.assignee = Some(assigneeId),
                                          !.status = IF @ = "new"
                                                     THEN "in_progress" ELSE @,
                                          !.due_date = due_date,
                                          !.days_remaining = days_remaining,
                                          !.is_overdue = is_overdue,
                                          !.updated_at = t]]]

(* assign keeping the stored due date when it is called without one *)
assignKeepsDueDate(D, id, assigneeId, due_date, t) ==
    IF id \notin DOMAIN D
    THEN [result |-> ErrDefectNotFound, store |-> D]
    ELSE IF assigneeId \notin MOCK_ENGINEERS
    THEN [result |-> ErrAssigneeNotFound, store |-> D]
    ELSE LET due == IF due_date # None THEN due_date ELSE D[id].due_date
             days_remaining == IF due # None
                               THEN Some(Ceil(due[1] - t, DayUnits))
                               ELSE None
             is_overdue == IF due # None
                           THEN days_remaining[1] < 0
                           ELSE FALSE
         IN  [result |-> Ok,
              store |-> [D EXCEPT ![id] =
                            [D[id] EXCEPT !.assignee = Some(assigneeId),
                                          !.due_date = due,
                                          !.days_remaining = days_remaining,
                                          !.is_overdue = is_overdue,
                                          !.updated_at = t]]]

assign(D, id, assigneeId, due_date, t) ==
    IF id \notin DOMAIN D
    THEN [result |-> ErrDefectNotFound, store |-> D]
    ELSE IF assigneeId \notin MOCK_ENGINEERS
    THEN [result |-> ErrAssigneeNotFound, store |-> D]
    ELSE LET days_remaining == IF due_date # None
                               THEN Some(Ceil(due_date[1] - t, DayUnits))
                               ELSE None
             is_overdue == IF due_date # None
                           THEN days_remaining[1] < 0
                           ELSE FALSE
         IN  [result |-> Ok,
              store |-> [D EXCEPT ![id] =
                            [D[id] EXCEPT !.assignee = Some(assigneeId),
                                          !.due_date = due_date,
                                          !.days_remaining = days_remaining,
                                          !.is_overdue = is_overdue,
                                          !.updated_at = t]]]

(* createDefect: the new record gets the next id and status new; the       *)
(* assignee of the form is looked up among the engineers, the due date is  *)
(* stored as given, is_overdue is false and days_remaining is not set.     *)
createDefect(D, assigneeId, due_date, t) ==
    LET id == (CHOOSE m \in DOMAIN D : \A i \in DOMAIN D : i <= m) + 1
        newDefect ==
            [status |-> "new",
             assignee |-> IF assigneeId # None /\ assigneeId[1] \in MOCK_ENGINEERS
                          THEN assigneeId ELSE None,
             due_date |-> due_date,
             days_remaining |-> None,
             is_overdue |-> FALSE,
             updated_at |-> t]
    IN  [result |-> Ok, id |-> id, store |-> D @@ (id :> newDefect)]

(* updateDefect: {...MOCK_DEFECTS[index], ...data, updated_at}: every      *)
(* field that data names is overwritten with data's value.                 *)
updateDefect(D, id, data, t) ==
    IF id \notin DOMAIN D
    THEN [result |-> ErrDefectNotFound, store |-> D]
    ELSE [result |-> Ok,
          store |-> [D EXCEPT ![id] =
                        [f \in DOMAIN D[id] |->
                            IF f = "updated_at" THEN t
                            ELSE IF f \in DOMAIN data THEN data[f]
                            ELSE D[id][f]]]]

----------------------------------------------------------------------------
(* Requests and completed calls. The optional comment argument of both     *)
(* thunks is passed to the API, which ignores it; it is left out.          *)

NoStatus == ""
NoUser == 0

StatusRequest(role, id, status) ==
    [op |-> "changeStatus", role |-> role, id |-> id, status |-> status,
     assignee |-> NoUser, due_date |-> None,
     expected |-> IF id \in DOMAIN MOCK_DEFECTS THEN Some(writes[id]) ELSE None]

AssignRequest(role, id, assigneeId, due_date) ==
    [op |-> "assign", role |-> role, id |-> id, status |-> NoStatus,
     assignee |-> assigneeId, due_date |-> due_date,
     expected |-> IF id \in DOMAIN MOCK_DEFECTS THEN Some(writes[id]) ELSE None]

NoCall ==
    [op |-> "none", role |-> NoRole, id |-> 0, status |-> NoStatus,
     expected |-> None, from |-> None, at |-> None, result |-> Ok]

(* The record of a completed call: the request, the status and the write   *)
(* count of the record when the body ran, and the outcome.                 *)
Completed(r, result) ==
    [op |-> r.op, role |-> r.role, id |-> r.id, status |-> r.status,
     expected |-> r.expected,
     from |-> IF r.id \in DOMAIN MOCK_DEFECTS THEN Some(MOCK_DEFECTS[r.id].status) ELSE None,
     at |-> IF r.id \in DOMAIN MOCK_DEFECTS THEN Some(writes[r.id]) ELSE None,
     result |-> result]

(* The write counts after a call on record id with this outcome: an        *)
(* accepted call has replaced MOCK_DEFECTS[index] once.                    *)
Committed(id, result) ==
    [i \in DOMAIN writes |->
        IF i = id /\ result = Ok THEN writes[i] + 1 ELSE writes[i]]

----------------------------------------------------------------------------
(* The defects slice of the Redux store. defects, an array of records with *)
(* an id, is the function from the ids it holds to their records; the      *)
(* current defect is undefined or the pair of an id and its record.        *)

initialState == [defects |-> <<>>, currentDefect |-> None]

----------------------------------------------------------------------------
(* Actions *)

Init ==
    /\ MOCK_DEFECTS = (1 :> MockDefect1)
    /\ writes = (1 :> 0)
    /\ now = 0
    /\ inflight = {}
    /\ calls = 0
    /\ last = NoCall
    /\ query = None
    /\ answer = None
    /\ history = (1 :> <<>>)
    /\ reading = None
    /\ slice = initialState

(* The clock advances *)
Tick ==
    /\ now < MaxTime
    /\ now' = now + 1
    /\ UNCHANGED <<MOCK_DEFECTS, writes, inflight, calls, last, query, answer, history, reading, slice>>

Dispatch(r) ==
    /\ calls < MaxCalls
    /\ Cardinality(inflight) < MaxInFlight
    /\ r \notin inflight
    /\ inflight' = inflight \cup {r}
    /\ calls' = calls + 1
    /\ UNCHANGED <<MOCK_DEFECTS, writes, now, last, query, answer, history, reading, slice>>

(* changeDefectStatus thunk: dispatch of defectsAPI.changeStatus(id, status) *)
DispatchChangeStatus ==
    \E role \in Roles, id \in IdInputs, status \in StatusInputs :
        Dispatch(StatusRequest(role, id, status))

(* assignDefect thunk: dispatch of defectsAPI.assign(id, assignee, due_date) *)
DispatchAssign ==
    \E role \in Roles, id \in IdInputs, a \in AssigneeInputs, d \in DueInputs :
        Dispatch(AssignRequest(role, id, a, d))

(* The thunk running the API body again after a rejection: the rejected    *)
(* request stays in flight.                                                *)
CompleteRetriesRejected(r, out) ==
    /\ MOCK_DEFECTS' = out.store
    /\ writes' = Committed(r.id, out.result)
    /\ inflight' = IF out.result = Ok THEN inflight \ {r} ELSE inflight
    /\ last' = Completed(r, out.result)
    /\ UNCHANGED <<now, calls, query, answer, history, reading, slice>>

Complete(r, out) ==
    /\ MOCK_DEFECTS' = out.store
    /\ writes' = Committed(r.id, out.result)
    /\ inflight' = inflight \ {r}
    /\ last' = Completed(r, out.result)
    /\ UNCHANGED <<now, calls, query, answer, history, reading, slice>>

(* The body of defectsAPI.changeStatus after its timer *)
ApiChangeStatus ==
    \E r \in inflight :
        /\ r.op = "changeStatus"
        /\ Complete(r, changeStatus(MOCK_DEFECTS, r.id, r.status, now))

(* The body of defectsAPI.assign after its timer *)
ApiAssign ==
    \E r \in inflight :
        /\ r.op = "assign"
        /\ Complete(r, assign(MOCK_DEFECTS, r.id, r.assignee, r.due_date, now))

Next ==
    \/ Tick
    \/ DispatchChangeStatus
    \/ DispatchAssign
    \/ ApiChangeStatus
    \/ ApiAssign

Spec == Init /\ [][Next]_vars

(* One caller changing statuses beside a manager who assigns, with the     *)
(* timers of the API methods firing: setTimeout resolves after its delay   *)
(* and the event loop runs the body of every call that is waiting.         *)
CallerChangeStatus ==
    \E id \in IdInputs, status \in StatusInputs :
        Dispatch(StatusRequest("engineer", id, status))

ManagerAssign ==
    \E id \in IdInputs, a \in AssigneeInputs, d \in DueInputs :
        Dispatch(AssignRequest("manager", id, a, d))

NextFair ==
    \/ Tick
    \/ CallerChangeStatus
    \/ ManagerAssign
    \/ ApiChangeStatus
    \/ ApiAssign

SpecFair ==
    Init /\ [][NextFair]_vars /\ WF_vars(ApiChangeStatus) /\ WF_vars(ApiAssign)

----------------------------------------------------------------------------
(* The transition lookup on its own: the arguments are drawn, then the     *)
(* lookup is applied to them.                                              *)

RoleInputs == Roles \cup {NoRole}

InitLookup ==
    /\ MOCK_DEFECTS = (1 :> MockDefect1)
    /\ writes = (1 :> 0)
    /\ now = 0
    /\ inflight = {}
    /\ calls = 0
    /\ last = NoCall
    /\ query \in {Some([from |-> f, to |-> t, role |-> r]) :
                    f \in StatusInputs, t \in StatusInputs, r \in RoleInputs}
    /\ answer = None
    /\ history = (1 :> <<>>)
    /\ reading = None
    /\ slice = initialState

Lookup ==
    /\ query # None
    /\ answer = None
    /\ answer' = Some(getAvailableTransitions(query[1].from, query[1].role))
    /\ UNCHANGED <<MOCK_DEFECTS, writes, now, inflight, calls, last, query,
                   history, reading, slice>>

NextLookup == Lookup

SpecTable == InitLookup /\ [][NextLookup]_vars

----------------------------------------------------------------------------
(* The history timeline of the workflow component. The component renders   *)
(* the statusHistory it is given ("history from the API, if any"), one     *)
(* item per entry, in the order of the array. The store that keeps the     *)
(* history is not among the sources: no API method writes or returns one.  *)
(* Here it is the HistoryLog of the specification, section 4.5: an         *)
(* accepted status change appends its record, getHistory returns the       *)
(* records of a defect oldest first, and nothing else touches the log.     *)

MaxHistory == 2     \* accepted status changes recorded in one run

(* A record with the fields the timeline reads: changed_at (the            *)
(* timestamp), action (the statuses left and entered) and user (the actor) *)
TransitionRecord(from_status, to_status, actor, timestamp) ==
    [changed_at |-> timestamp, action |-> <<from_status, to_status>>,
     user |-> actor]

append(H, id, record) == [H EXCEPT ![id] = Append(@, record)]

getHistory(H, id) == H[id]

(* The timeline with the newest entry on top *)
TimelineNewestFirst(statusHistory) ==
    [index \in 1..Len(statusHistory) |->
        LET historyItem == statusHistory[Len(statusHistory) + 1 - index]
        IN  [changed_at |-> historyItem.changed_at,
             action |-> historyItem.action,
             user |-> historyItem.user]]

(* statusHistory.map((historyItem, index) => <TimelineItem key={index}>)   *)
Timeline(statusHistory) ==
    [index \in 1..Len(statusHistory) |->
        LET historyItem == statusHistory[index]
        IN  [changed_at |-> historyItem.changed_at,
             action |-> historyItem.action,
             user |-> historyItem.user]]

(* A status change through the API, recorded by the log when accepted *)
RecordedChangeStatus ==
    \E role \in Roles, id \in IdInputs, status \in StatusInputs :
        LET out == changeStatus(MOCK_DEFECTS, id, status, now)
        IN  /\ id \in DOMAIN history => Len(history[id]) < MaxHistory
            /\ MOCK_DEFECTS' = out.store
            /\ writes' = Committed(id, out.result)
            /\ history' = IF out.result = Ok
                          THEN append(history, id,
                                      TransitionRecord(MOCK_DEFECTS[id].status,
                                                       status, role, now))
                          ELSE history
            /\ UNCHANGED <<now, inflight, calls, last, query, answer, reading, slice>>

(* The timeline of a defect is rendered from its history as read now *)
RenderTimeline ==
    \E id \in DOMAIN history :
        /\ reading' = Some([id |-> id,
                            items |-> Timeline(getHistory(history, id)),
                            at |-> writes[id]])
        /\ UNCHANGED <<MOCK_DEFECTS, writes, now, inflight, calls, last,
                       query, answer, history, slice>>

NextHistory ==
    \/ Tick
    \/ RecordedChangeStatus
    \/ RenderTimeline

SpecHistory == Init /\ [][NextHistory]_vars

----------------------------------------------------------------------------
(* The record store under all the methods that write it: every call is one *)
(* step, the body of the API method on the arguments the caller passed.    *)

(* What callers pass as data to updateDefect: the fields of the edit       *)
(* dialog (among them due_date, never status), a title alone, and a        *)
(* Partial<Defect> that names a status.                                    *)
DataInputs ==
    {[title |-> "edited", due_date |-> d] : d \in DueInputs}
        \cup {[title |-> "edited"]}
        \cup {[status |-> s] : s \in Statuses}

CreateRequest ==
    [op |-> "createDefect", role |-> NoRole, id |-> 0, status |-> "new",
     expected |-> None]

UpdateRequest(id, data) ==
    [op |-> "updateDefect", role |-> NoRole, id |-> id,
     status |-> IF "status" \in DOMAIN data THEN data.status ELSE NoStatus,
     expected |-> IF id \in DOMAIN MOCK_DEFECTS THEN Some(writes[id]) ELSE None]

StoreCall(r, out) ==
    /\ calls < MaxCalls
    /\ calls' = calls + 1
    /\ MOCK_DEFECTS' = out.store
    /\ writes' = Committed(r.id, out.result)
    /\ last' = Completed(r, out.result)
    /\ UNCHANGED <<now, inflight, query, answer, history, reading, slice>>

StoreCreateDefect ==
    \E a \in {None} \cup {Some(e) : e \in AssigneeInputs}, d \in DueInputs :
        LET out == createDefect(MOCK_DEFECTS, a, d, now)
        IN  /\ calls < MaxCalls
            /\ calls' = calls + 1
            /\ MOCK_DEFECTS' = out.store
            /\ writes' = writes @@ (out.id :> 0)
            /\ history' = history @@ (out.id :> <<>>)
            /\ last' = [Completed(CreateRequest, out.result) EXCEPT !.id = out.id]
            /\ UNCHANGED <<now, inflight, query, answer, reading, slice>>

StoreUpdateDefect ==
    \E id \in IdInputs \cup DOMAIN MOCK_DEFECTS, data \in DataInputs :
        StoreCall(UpdateRequest(id, data), updateDefect(MOCK_DEFECTS, id, data, now))

StoreChangeStatus ==
    \E id \in IdInputs \cup DOMAIN MOCK_DEFECTS, status \in StatusInputs :
        StoreCall(StatusRequest(NoRole, id, status),
                  changeStatus(MOCK_DEFECTS, id, status, now))

StoreAssign ==
    \E id \in IdInputs \cup DOMAIN MOCK_DEFECTS, a \in AssigneeInputs, d \in DueInputs :
        StoreCall(AssignRequest(NoRole, id, a, d),
                  assign(MOCK_DEFECTS, id, a, d, now))

NextStore ==
    \/ StoreCreateDefect
    \/ StoreUpdateDefect
    \/ StoreChangeStatus
    \/ StoreAssign

SpecStore == Init /\ [][NextStore]_vars

----------------------------------------------------------------------------
(* The overdue view of a defect over a longer stretch of time: the clock   *)
(* runs for MaxClock units, assignments set due dates, and readers get the *)
(* stored record.                                                          *)

MaxClock == 4       \* clock ticks in one run of the overdue view

(* getDefect returns the stored record; the is_overdue filter of           *)
(* getDefects and the due-date chip read its is_overdue and days_remaining *)
getDefect(D, id) == D[id]

TickOverdue ==
    /\ now < MaxClock
    /\ now' = now + 1
    /\ UNCHANGED <<MOCK_DEFECTS, writes, inflight, calls, last, query, answer,
                   history, reading, slice>>

NextOverdue ==
    \/ TickOverdue
    \/ StoreAssign

SpecOverdue == Init /\ [][NextOverdue]_vars

----------------------------------------------------------------------------
(* What the caller of a thunk is told. The thunks catch the error of the   *)
(* API and reject with error.response?.data?.detail || <message of the     *)
(* thunk>; the errors the API throws are plain Errors without a response,  *)
(* so the payload is always the message of the thunk.                      *)

RejectedChangeStatus == "rejected: status change error"
RejectedAssign == "rejected: assignment error"

rejectWithValue(op, result) ==
    IF result = Ok THEN Ok
    ELSE IF op = "changeStatus" THEN RejectedChangeStatus
    ELSE RejectedAssign

----------------------------------------------------------------------------
(* Status changes as users submit them: through the status change dialog   *)
(* of the Defects page, which is opened from a menu item shown when        *)
(* canChangeStatus() holds for the signed-in user, and through the         *)
(* available actions of the workflow component, shown when its             *)
(* canManageDefects property is set. Every submission is one step: the     *)
(* choice among the statuses offered and the call of the API with it.      *)

MaxSubmits == 4     \* status changes submitted in one run

canChangeStatus(role) == role \in {"manager", "engineer"}

getValidNextStatuses(currentStatus) ==
    CASE currentStatus = "new" -> <<"in_progress", "cancelled">>
      [] currentStatus = "in_progress" -> <<"review", "cancelled">>
      [] currentStatus = "review" -> <<"closed", "in_progress">>
      [] currentStatus = "closed" -> <<>>
      [] currentStatus = "cancelled" -> <<"new">>
      [] OTHER -> <<>>

(* What the Select of the dialog offers: the current status and the valid  *)
(* next statuses                                                           *)
DialogOptions(defect) ==
    {defect.status} \cup SeqToSet(getValidNextStatuses(defect.status))

(* The buttons of the workflow component: getAvailableTransitions is       *)
(* called with the status alone                                            *)
WorkflowActions(defect, canManageDefects) ==
    IF canManageDefects
    THEN SeqToSet(getAvailableTransitions(defect.status, NoRole))
    ELSE {}

Submit(role, id, status) ==
    LET r == StatusRequest(role, id, status)
        out == changeStatus(MOCK_DEFECTS, id, status, now)
    IN  /\ calls < MaxSubmits
        /\ calls' = calls + 1
        /\ MOCK_DEFECTS' = out.store
        /\ writes' = Committed(id, out.result)
        /\ last' = Completed(r, out.result)
        /\ UNCHANGED <<now, inflight, query, answer, history, reading, slice>>

(* StatusChangeDialog.handleSubmit: choosing the current status reports    *)
(* 'choose a new status' and dispatches nothing                            *)
DialogSubmit ==
    \E role \in Roles, id \in DOMAIN MOCK_DEFECTS :
        \E selectedStatus \in DialogOptions(MOCK_DEFECTS[id]) :
            /\ canChangeStatus(role)
            /\ selectedStatus # MOCK_DEFECTS[id].status
            /\ Submit(role, id, selectedStatus)

(* DefectWorkflow: a click on an available action and its confirmation *)
WorkflowSubmit ==
    \E role \in Roles, id \in DOMAIN MOCK_DEFECTS, canManageDefects \in BOOLEAN :
        \E selectedStatus \in WorkflowActions(MOCK_DEFECTS[id], canManageDefects) :
            Submit(role, id, selectedStatus)

NextUI ==
    \/ Tick
    \/ DialogSubmit
    \/ WorkflowSubmit

SpecUI == Init /\ [][NextUI]_vars

----------------------------------------------------------------------------
(* The overdue mark of the workflow component and of the defect card:      *)
(* defect.due_date && new Date(defect.due_date) < new Date()               *)
isOverdue(defect, t) ==
    defect.due_date # None /\ defect.due_date[1] < t

----------------------------------------------------------------------------
(* The defects slice beside the record store. A thunk awaits the API and   *)
(* its fulfilled action is dispatched from the continuation of that await: *)
(* the body of the API method, the return of the thunk and the reducer run *)
(* in one chain of microtasks after the timer of the call, before the      *)
(* timer of any other call, so the settling of a call is one step. A       *)
(* rejected call has no reducer case in the slice.                         *)

(* MOCK_DEFECTS[1]: in_progress, assigned to engineer 3, due 2024-09-10,   *)
(* shipped with is_overdue true and days_remaining -2                      *)
MockDefect2 ==
    [status |-> "in_progress", assignee |-> Some(3),
     due_date |-> Some(2 * DayUnits), days_remaining |-> Some(0 - 2),
     is_overdue |-> TRUE, updated_at |-> 0]

DataRequest(id, data) ==
    [op |-> "updateDefect", role |-> NoRole, id |-> id,
     status |-> IF "status" \in DOMAIN data THEN data.status ELSE NoStatus,
     assignee |-> NoUser,
     due_date |-> IF "due_date" \in DOMAIN data THEN data.due_date ELSE None,
     data |-> data,
     expected |-> IF id \in DOMAIN MOCK_DEFECTS THEN Some(writes[id]) ELSE None]

(* The requests dispatched beside the slice *)
SliceRequests ==
    {StatusRequest(NoRole, id, s) :
        id \in {1, 2}, s \in {"in_progress", "closed", "invalid_status"}}
    \cup {AssignRequest(NoRole, id, a, Some(DayUnits)) :
            id \in {1, 2}, a \in AssigneeInputs}
    \cup {DataRequest(id, data) :
            id \in {1, 2},
            data \in {[title |-> "edited", due_date |-> None],
                      [status |-> "review"]}}

(* fetchDefects.fulfilled: state.defects = action.payload.results *)
fetchDefectsFulfilled(state, results) == [state EXCEPT !.defects = results]

(* fetchDefect.fulfilled: state.currentDefect = action.payload *)
fetchDefectFulfilled(state, payload) ==
    [state EXCEPT !.currentDefect = Some(payload)]

(* The reducer replacing the list entry and leaving the current defect *)
fulfilledListOnly(state, payload) ==
    [state EXCEPT !.defects =
        IF payload.id \in DOMAIN state.defects
        THEN [state.defects EXCEPT ![payload.id] = payload.defect]
        ELSE state.defects]

(* updateDefect.fulfilled, changeDefectStatus.fulfilled and                *)
(* assignDefect.fulfilled: the same reducer three times                    *)
fulfilled(state, payload) ==
    [defects |->
        IF payload.id \in DOMAIN state.defects
        THEN [state.defects EXCEPT ![payload.id] = payload.defect]
        ELSE state.defects,
     currentDefect |->
        IF state.currentDefect # None /\ state.currentDefect[1].id = payload.id
        THEN Some(payload)
        ELSE state.currentDefect]

InitSlice ==
    /\ MOCK_DEFECTS = (1 :> MockDefect1 @@ 2 :> MockDefect2)
    /\ writes = (1 :> 0 @@ 2 :> 0)
    /\ now = 0
    /\ inflight = {}
    /\ calls = 0
    /\ last = NoCall
    /\ query = None
    /\ answer = None
    /\ history = (1 :> <<>> @@ 2 :> <<>>)
    /\ reading = None
    /\ slice = initialState

(* fetchDefects settling: the list of the page is loaded *)
SliceFetchDefects ==
    /\ slice' = fetchDefectsFulfilled(slice, MOCK_DEFECTS)
    /\ UNCHANGED <<MOCK_DEFECTS, writes, now, inflight, calls, last, query,
                   answer, history, reading>>

(* fetchDefect settling: a defect is opened *)
SliceFetchDefect ==
    \E id \in DOMAIN MOCK_DEFECTS :
        /\ slice' = fetchDefectFulfilled(slice, [id |-> id, defect |-> getDefect(MOCK_DEFECTS, id)])
        /\ UNCHANGED <<MOCK_DEFECTS, writes, now, inflight, calls, last, query,
                       answer, history, reading>>

SliceDispatch == \E r \in SliceRequests : Dispatch(r)

(* A call settling: the body of its API method and, when it is accepted,   *)
(* the reducer of its fulfilled action with the record returned            *)
SliceSettle ==
    \E r \in inflight :
        LET out == CASE r.op = "changeStatus" ->
                            changeStatus(MOCK_DEFECTS, r.id, r.status, now)
                     [] r.op = "assign" ->
                            assign(MOCK_DEFECTS, r.id, r.assignee, r.due_date, now)
                     [] r.op = "updateDefect" ->
                            updateDefect(MOCK_DEFECTS, r.id, r.data, now)
        IN  /\ MOCK_DEFECTS' = out.store
            /\ writes' = Committed(r.id, out.result)
            /\ inflight' = inflight \ {r}
            /\ last' = Completed(r, out.result)
            /\ slice' = IF out.result = Ok
                        THEN fulfilled(slice, [id |-> r.id, defect |-> out.store[r.id]])
                        ELSE slice
            /\ UNCHANGED <<now, calls, query, answer, history, reading>>

NextSlice ==
    \/ Tick
    \/ SliceFetchDefects
    \/ SliceFetchDefect
    \/ SliceDispatch
    \/ SliceSettle

SpecSlice == InitSlice /\ [][NextSlice]_vars

----------------------------------------------------------------------------
(* Vocabulary of the properties *)

(* The error kind a caller can tell from an outcome of the API *)
Kind(result) ==
    CASE result = Ok -> "ok"
      [] result = ErrDefectNotFound -> "NotFoundError"
      [] result = ErrAssigneeNotFound -> "NotFoundError"
      [] result = ErrInvalidStatus -> "InvalidTransitionError"

(* isAllowed(from, to, role) of the transition lookup *)
isAllowed(from, to, role) == to \in SeqToSet(getAvailableTransitions(from, role))

(* The pair is in the structural table: some role may perform it *)
Structural(from, to) == \E r \in Roles : isAllowed(from, to, r)

(* The tables of the specification, section 4.1, written out *)
TableManager(from) ==
    CASE from = "new" -> {"in_progress", "cancelled"}
      [] from = "in_progress" -> {"review", "cancelled"}
      [] from = "review" -> {"closed", "in_progress", "cancelled"}
      [] from = "closed" -> {"in_progress"}
      [] from = "cancelled" -> {"new"}

TableEngineer(from) ==
    CASE from = "new" -> {"in_progress"}
      [] from = "in_progress" -> {"review"}
      [] OTHER -> {}

TableOf(from, role) ==
    CASE role = "manager" -> TableManager(from)
      [] role = "engineer" -> TableEngineer(from)
      [] role = "observer" -> {}

(* The last call was a status change on a stored record *)
LastTransition == last.op = "changeStatus" /\ last.from # None

(* The caller of the last call had read the record as it was when the body ran *)
LastFresh == last.expected # None /\ last.expected = last.at

(* The caller of the last call had read an older state of the record *)
LastStale == last.expected # None /\ last.at # None /\ last.expected # last.at

HasVersion(rec) == "version" \in DOMAIN rec
HasHistory(rec) == "history" \in DOMAIN rec

----------------------------------------------------------------------------
(* C1: a status change with a matching version to a different status that  *)
(* the role may not perform fails with InvalidTransitionError exactly when *)
(* no role may perform it and with ForbiddenRoleError exactly when some    *)
(* other role may.                                                         *)
C1_RejectionKindByTable ==
    (/\ LastTransition
     /\ LastFresh
     /\ last.status \in Statuses
     /\ last.status # last.from[1]
     /\ ~isAllowed(last.from[1], last.status, last.role))
    => /\ (Kind(last.result) = "InvalidTransitionError")
            <=> ~Structural(last.from[1], last.status)
       /\ (Kind(last.result) = "ForbiddenRoleError")
            <=> Structural(last.from[1], last.status)

(* C2: a status change whose expected version differs from the record's    *)
(* version fails with ConcurrentModificationError, whatever it requests.   *)
C2_StaleTransitionIsConcurrentModification ==
    (LastTransition /\ LastStale)
    => Kind(last.result) = "ConcurrentModificationError"

(* C3: a status change to the status the record already has is never       *)
(* allowed by the lookup, fails with InvalidTransitionError for every role *)
(* and leaves the record unchanged.                                        *)
C3_NoOpRejected ==
    (LastTransition /\ LastFresh /\ last.status = last.from[1])
    => /\ ~isAllowed(last.from[1], last.status, last.role)
       /\ Kind(last.result) = "InvalidTransitionError"
       /\ writes[last.id] = last.at[1]

(* C4: for every status and role the lookup returns exactly the targets of *)
(* the tables of section 4.1, so isAllowed(from, to, role) is membership   *)
(* in them.                                                                *)
C4_LookupMatchesTables ==
    (answer # None /\ query[1].from \in Statuses /\ query[1].role \in Roles)
    => /\ SeqToSet(answer[1]) = TableOf(query[1].from, query[1].role)
       /\ isAllowed(query[1].from, query[1].to, query[1].role)
            <=> (query[1].to \in TableOf(query[1].from, query[1].role))

C4_Witness ==
    /\ answer = Some(<<"review">>)
    /\ query[1].from = "in_progress"
    /\ query[1].role = "engineer"
    /\ query[1].to = "review"

(* C5: every status change and every assignment requested by an observer   *)
(* is rejected and leaves the records as they were.                        *)
C5_ObserverChangesNothing ==
    [][last'.role = "observer"
        => /\ last'.result # Ok
           /\ MOCK_DEFECTS' = MOCK_DEFECTS
           /\ writes' = writes]_vars

(* C6: an accepted status change returns the record with the requested     *)
(* status and the previous version plus 1, together with one history       *)
(* record from the previous status to the requested one.                   *)
C6_AcceptedTransitionResult ==
    (/\ LastTransition
     /\ LastFresh
     /\ last.status \in Statuses
     /\ last.status # last.from[1]
     /\ isAllowed(last.from[1], last.status, last.role)
     /\ last.result = Ok)
    => /\ MOCK_DEFECTS[last.id].status = last.status
       /\ HasVersion(MOCK_DEFECTS[last.id])
       /\ MOCK_DEFECTS[last.id].version = last.at[1] + 1
       /\ HasHistory(MOCK_DEFECTS[last.id])
       /\ Len(MOCK_DEFECTS[last.id].history) = 1
       /\ MOCK_DEFECTS[last.id].history[1].from_status = last.from[1]
       /\ MOCK_DEFECTS[last.id].history[1].to_status = last.status

(* C7: the version of a record goes up by exactly 1 at each accepted call  *)
(* and does not change otherwise.                                          *)
C7_VersionStepsByOne ==
    [][\A id \in DOMAIN MOCK_DEFECTS :
        IF last' # last /\ last'.id = id /\ last'.result = Ok
        THEN /\ HasVersion(MOCK_DEFECTS[id])
             /\ HasVersion(MOCK_DEFECTS'[id])
             /\ MOCK_DEFECTS'[id].version = MOCK_DEFECTS[id].version + 1
        ELSE HasVersion(MOCK_DEFECTS[id])
                => MOCK_DEFECTS'[id].version = MOCK_DEFECTS[id].version]_vars

(* C8: a rejected status change or assignment leaves every record, and the *)
(* number of writes committed to it, exactly as before the call.           *)
C8_RejectedCallChangesNothing ==
    [][last'.result \in Errors
        => /\ MOCK_DEFECTS' = MOCK_DEFECTS
           /\ writes' = writes]_vars

C8_Witness ==
    /\ last.op = "assign"
    /\ last.result = ErrAssigneeNotFound
    /\ last.from # None

(* C9: of two status changes prepared from the same version with different *)
(* allowed targets, the one that completes second fails with               *)
(* ConcurrentModificationError and changes nothing.                        *)
C9_SecondOfTwoConcurrentRejected ==
    [][(/\ LastTransition
        /\ LastFresh
        /\ last.result = Ok
        /\ isAllowed(last.from[1], last.status, last.role)
        /\ last' # last
        /\ last'.op = "changeStatus"
        /\ last'.id = last.id
        /\ last'.expected = last.expected
        /\ last'.status # last.status
        /\ isAllowed(last.from[1], last'.status, last'.role))
        => /\ Kind(last'.result) = "ConcurrentModificationError"
           /\ MOCK_DEFECTS' = MOCK_DEFECTS
           /\ writes'[last.id] = last.expected[1] + 1]_vars

(* C10: a status change prepared before an accepted assignment, or an      *)
(* assignment prepared before an accepted status change, is rejected with  *)
(* ConcurrentModificationError when it completes after it.                 *)
C10_StaleWriteAcrossOperationsRejected ==
    [][(/\ last.op \in {"changeStatus", "assign"}
        /\ last.result = Ok
        /\ last' # last
        /\ last'.op \in {"changeStatus", "assign"}
        /\ last'.op # last.op
        /\ last'.id = last.id
        /\ last'.expected = last.expected)
        => /\ Kind(last'.result) = "ConcurrentModificationError"
           /\ MOCK_DEFECTS' = MOCK_DEFECTS]_vars

----------------------------------------------------------------------------
----------------------------------------------------------------------------
(* C12: the history of a defect has one record per accepted status change: *)
(* the step that completes an accepted status change of a defect makes its *)
(* history one record longer, and every other step (a rejected request, an *)
(* assignment, a dispatch, a clock tick) leaves its length as it was.      *)
C12_HistoryCountsAcceptedTransitions ==
    [][\A id \in DOMAIN MOCK_DEFECTS :
          IF /\ calls' = calls
             /\ inflight' # inflight
             /\ last'.op = "changeStatus"
             /\ last'.id = id
             /\ last'.result = Ok
             /\ MOCK_DEFECTS'[id].status # MOCK_DEFECTS[id].status
          THEN Len(history'[id]) = Len(history[id]) + 1
          ELSE Len(history'[id]) = Len(history[id])]_vars

----------------------------------------------------------------------------
IsPrefix(s, t) == Len(s) <= Len(t) /\ \A i \in 1..Len(s) : s[i] = t[i]

----------------------------------------------------------------------------
(* C14: an assignment is accepted only from a manager: when the assignment *)
(* of a known engineer to a stored defect, dispatched by an engineer or an *)
(* observer, completes, it fails with ForbiddenRoleError and the store and *)
(* the write counts are as before (so after a manager's assignment the     *)
(* defect keeps the manager's assignee, its status and its version).       *)
C14_AssignOnlyForManager ==
    [][\A r \in inflight :
          (/\ r.op = "assign"
           /\ r.role # "manager"
           /\ r.id \in DOMAIN MOCK_DEFECTS
           /\ r.assignee \in MOCK_ENGINEERS
           /\ calls' = calls
           /\ inflight' = inflight \ {r})
          => /\ Kind(last'.result) = "ForbiddenRoleError"
             /\ MOCK_DEFECTS' = MOCK_DEFECTS
             /\ writes' = writes]_vars

----------------------------------------------------------------------------
----------------------------------------------------------------------------
(* C16: an accepted status change leaves the assignee and the due date of  *)
(* the defect as they were, and an accepted assignment leaves its status   *)
(* and its history as they were.                                           *)
C16_AcceptedCallsFrame ==
    [][\A r \in inflight :
          (/\ calls' = calls
           /\ inflight' = inflight \ {r}
           /\ last'.result = Ok)
          => /\ r.op = "changeStatus"
                  => /\ MOCK_DEFECTS'[r.id].assignee = MOCK_DEFECTS[r.id].assignee
                     /\ MOCK_DEFECTS'[r.id].due_date = MOCK_DEFECTS[r.id].due_date
             /\ r.op = "assign"
                  => /\ MOCK_DEFECTS'[r.id].status = MOCK_DEFECTS[r.id].status
                     /\ history'[r.id] = history[r.id]]_vars

(* An assignment was accepted on a defect that an earlier status change    *)
(* had moved to in_progress, and the defect is still in_progress.          *)
C16_Witness ==
    /\ last.op = "assign"
    /\ last.result = Ok
    /\ last.from = Some("in_progress")
    /\ MOCK_DEFECTS[last.id].status = "in_progress"
    /\ MOCK_DEFECTS[last.id].assignee = Some(3)

----------------------------------------------------------------------------
(* C17: the status of every stored defect is one of the five statuses; a   *)
(* defect is created with status new; a status change that names any other *)
(* value is rejected and leaves the store as it was.                       *)
C17_StatusAlwaysValid ==
    /\ [](\A id \in DOMAIN MOCK_DEFECTS : MOCK_DEFECTS[id].status \in Statuses)
    /\ [][\A id \in DOMAIN MOCK_DEFECTS' \ DOMAIN MOCK_DEFECTS :
              MOCK_DEFECTS'[id].status = "new"]_vars
    /\ [][(/\ calls' = calls + 1
            /\ last'.op = "changeStatus"
            /\ last'.status \notin Statuses)
            => /\ last'.result \in Errors
               /\ MOCK_DEFECTS' = MOCK_DEFECTS]_vars

(* A defect was created, and a status change of it that names an unknown   *)
(* status was rejected: the created defect is still new.                   *)
C17_Witness ==
    /\ last.op = "changeStatus"
    /\ last.id = 2
    /\ last.status = "invalid_status"
    /\ last.result = ErrInvalidStatus
    /\ MOCK_DEFECTS[2].status = "new"

----------------------------------------------------------------------------
(* C18: the status of a defect is changed by the status change operation   *)
(* only: a step that changes the status of a stored defect is a call of    *)
(* changeStatus, never an assignment or a general update.                  *)
C18_StatusChangedOnlyByChangeStatus ==
    [][\A id \in DOMAIN MOCK_DEFECTS :
          MOCK_DEFECTS'[id].status # MOCK_DEFECTS[id].status
              => /\ calls' = calls + 1
                 /\ last'.op = "changeStatus"
                 /\ last'.id = id]_vars

----------------------------------------------------------------------------
(* The overdue view of a due date at time t, as the specification defines  *)
(* it: without a due date not overdue and no days remaining; otherwise     *)
(* days_remaining is the least integer n with n days >= due date - t, and  *)
(* is_overdue says that it is negative.                                    *)
IsOverdueView(due_date, t, days_remaining, is_overdue) ==
    IF due_date = None
    THEN days_remaining = None /\ is_overdue = FALSE
    ELSE /\ days_remaining # None
         /\ days_remaining[1] * DayUnits >= due_date[1] - t
         /\ (days_remaining[1] - 1) * DayUnits < due_date[1] - t
         /\ is_overdue = (days_remaining[1] < 0)

(* C19: the overdue computation of an accepted assignment gives            *)
(* is_overdue false and no days_remaining when the due date is absent, and *)
(* otherwise days_remaining = ceil((due date - now) / one day) with        *)
(* is_overdue = (days_remaining < 0); a due date exactly one day in the    *)
(* past gives -1 and true.                                                 *)
C19_OverdueComputation ==
    [][(/\ calls' = calls + 1
        /\ last'.op = "assign"
        /\ last'.result = Ok)
        => LET rec == MOCK_DEFECTS'[last'.id]
           IN  /\ IsOverdueView(rec.due_date, now, rec.days_remaining, rec.is_overdue)
               /\ (rec.due_date # None /\ rec.due_date[1] = now - DayUnits)
                     => rec.days_remaining = Some(0 - 1) /\ rec.is_overdue]_vars

(* An assignment made at an odd clock value stored a due date one day and  *)
(* a half in the past: days_remaining is -1, rounded up from -1.5.         *)
C19_Witness ==
    /\ last.op = "assign"
    /\ last.result = Ok
    /\ MOCK_DEFECTS[last.id].updated_at = now
    /\ MOCK_DEFECTS[last.id].due_date = Some(now - DayUnits - 1)
    /\ MOCK_DEFECTS[last.id].days_remaining = Some(0 - 1)
    /\ MOCK_DEFECTS[last.id].is_overdue

----------------------------------------------------------------------------
(* C20: the overdue view is derived, not stored: at every moment the       *)
(* is_overdue and days_remaining that a reader of a defect gets are the    *)
(* overdue computation applied to its due date and the current time, so    *)
(* that once the clock has passed the due date by a day is_overdue is true *)
(* without any operation on the defect.                                    *)
C20_OverdueViewIsDerived ==
    \A id \in DOMAIN MOCK_DEFECTS :
        LET defect == getDefect(MOCK_DEFECTS, id)
        IN  IsOverdueView(defect.due_date, now,
                          defect.days_remaining, defect.is_overdue)

----------------------------------------------------------------------------
ErrorKinds ==
    {"InvalidTransitionError", "ForbiddenRoleError",
     "ConcurrentModificationError", "NotFoundError"}

(* The error kind a caller can tell from the payload of a thunk *)
PayloadKind(payload) ==
    CASE payload = Ok -> "ok"
      [] payload \in Errors -> Kind(payload)
      [] OTHER -> "untyped"

(* C21: every rejected status change or assignment is reported to its      *)
(* caller as exactly one of the four error kinds, never as an untyped      *)
(* failure and never as a success.                                         *)
C21_RejectionsAreTyped ==
    (last.op \in {"changeStatus", "assign"} /\ last.result \in Errors)
        => PayloadKind(rejectWithValue(last.op, last.result)) \in ErrorKinds

----------------------------------------------------------------------------
(* C22: requests of engineers keep a defect that starts as new within new, *)
(* in_progress and review: a status change that an engineer submits moves  *)
(* a defect from new to in_progress or from in_progress to review and      *)
(* nowhere else (so never to closed or cancelled and never out of closed   *)
(* or cancelled, and no more than two in a row are accepted).              *)
C22_EngineerForwardOnly ==
    [][(/\ calls' = calls + 1
        /\ last'.op = "changeStatus"
        /\ last'.role = "engineer"
        /\ last'.result = Ok)
        => \/ last'.from = Some("new") /\ last'.status = "in_progress"
           \/ last'.from = Some("in_progress") /\ last'.status = "review"]_vars

----------------------------------------------------------------------------
(* C23: every status change of a stored defect is a pair of the structural *)
(* transition table: a step that changes the status of a defect takes it   *)
(* from a status to a different one that the table connects it to (never   *)
(* new to closed or new to review).                                        *)
C23_StatusChangesFollowTable ==
    [][\A id \in DOMAIN MOCK_DEFECTS :
          MOCK_DEFECTS'[id].status # MOCK_DEFECTS[id].status
              => Structural(MOCK_DEFECTS[id].status, MOCK_DEFECTS'[id].status)]_vars

----------------------------------------------------------------------------
(* C24: what the user interface lets a user submit is within the role      *)
(* overlay: every status change that a user submits through the status     *)
(* change dialog or the workflow component is a transition that the tables *)
(* allow for the role of that user from the status the defect has.         *)
C24_SubmissionsWithinOverlay ==
    [][(/\ calls' = calls + 1
        /\ last'.op = "changeStatus"
        /\ last'.from # None)
        => last'.status \in TableOf(last'.from[1], last'.role)]_vars

----------------------------------------------------------------------------
(* C25: the history of a defect is a connected chain: it starts from new,  *)
(* every record starts from the status the record before it ended in, and  *)
(* the last record ends in the current status of the defect; the status is *)
(* new when the history is empty.                                          *)
C25_HistoryIsChain ==
    \A id \in DOMAIN MOCK_DEFECTS :
        LET h == history[id]
        IN  IF h = <<>>
            THEN MOCK_DEFECTS[id].status = "new"
            ELSE /\ h[1].action[1] = "new"
                 /\ \A i \in 2..Len(h) : h[i].action[1] = h[i - 1].action[2]
                 /\ h[Len(h)].action[2] = MOCK_DEFECTS[id].status

----------------------------------------------------------------------------
(* The statuses a lookup leads to from a status in one or more steps *)
RECURSIVE Closure(_, _, _)
Closure(T, S, n) ==
    IF n = 0 THEN S
    ELSE Closure(T, S \cup UNION {T[x] : x \in S}, n - 1)

Reach(T, s) == Closure(T, T[s], Cardinality(Statuses))

(* What a manager is offered: by the lookup of the workflow component and  *)
(* by the status change dialog                                             *)
ManagerLookups ==
    {[s \in Statuses |-> SeqToSet(getAvailableTransitions(s, "manager"))],
     [s \in Statuses |-> SeqToSet(getValidNextStatuses(s))]}

(* C26: for a manager the workflow has no dead end: whatever status a      *)
(* defect is in, the manager has at least one transition out of it and     *)
(* every other status can be reached from it by a sequence of transitions  *)
(* (closed is reopened to in_progress, cancelled is restored to new).      *)
C26_ManagerHasNoDeadEnd ==
    \A id \in DOMAIN MOCK_DEFECTS :
        LET s == MOCK_DEFECTS[id].status
        IN  \A T \in ManagerLookups :
                /\ T[s] # {}
                /\ Statuses \ {s} \subseteq Reach(T, s)

----------------------------------------------------------------------------
(* C27: the two transition lookups agree: for every current status the     *)
(* next statuses that the status change dialog offers are those that the   *)
(* lookup of the workflow component returns when it is given no role.      *)
C27_LookupsAgree ==
    (query # None /\ answer # None /\ query[1].role = NoRole)
        => SeqToSet(getValidNextStatuses(query[1].from)) = SeqToSet(answer[1])

----------------------------------------------------------------------------
(* C28: the two overdue derivations agree: the is_overdue that an accepted *)
(* assignment computes from the due date and the current time equals the   *)
(* isOverdue that the workflow component and the defect card derive from   *)
(* the same due date at the same time, also when the due date is less than *)
(* a day in the past.                                                      *)
C28_OverdueDerivationsAgree ==
    [][(/\ calls' = calls + 1
        /\ last'.op = "assign"
        /\ last'.result = Ok)
        => LET defect == getDefect(MOCK_DEFECTS', last'.id)
           IN  defect.is_overdue = isOverdue(defect, now)]_vars

----------------------------------------------------------------------------
(* The copies of stored defects that the slice holds are the stored records *)
SliceMatchesStore ==
    /\ \A id \in DOMAIN slice.defects : slice.defects[id] = MOCK_DEFECTS[id]
    /\ slice.currentDefect # None
          => slice.currentDefect[1].defect = MOCK_DEFECTS[slice.currentDefect[1].id]

(* C29: the slice converges to the record store: whenever no status        *)
(* change, assignment or update is in flight, in whatever order the calls  *)
(* have settled, the list entry and the current defect that the slice      *)
(* holds equal the stored records; and the settling of a call on one       *)
(* defect leaves the copies of the other defects as they were.             *)
C29_SliceConvergesToStore ==
    /\ [](inflight = {} => SliceMatchesStore)
    /\ [][\A r \in inflight :
             (calls' = calls /\ inflight' = inflight \ {r})
             => /\ \A id \in DOMAIN slice.defects \ {r.id} :
                      slice'.defects[id] = slice.defects[id]
                /\ (slice.currentDefect # None /\ slice.currentDefect[1].id # r.id)
                      => slice'.currentDefect = slice.currentDefect]_vars

(* Defect 1 is open and listed, two calls on it were dispatched together   *)
(* and both have settled, the status change last; the copies show it.      *)
C29_Witness ==
    /\ inflight = {}
    /\ calls = MaxCalls
    /\ writes[1] = 2
    /\ last.op = "changeStatus"
    /\ last.expected = Some(0)
    /\ slice.currentDefect # None
    /\ slice.currentDefect[1].id = 1
    /\ 1 \in DOMAIN slice.defects
    /\ slice.defects[1].status = "closed"

----------------------------------------------------------------------------
(* C30: after an accepted assign the due date of the defect is exactly the *)
(* due date given to that call; an assign made without a due date leaves   *)
(* the defect with no due date, is_overdue false and no days_remaining,    *)
(* whatever due date it had before.                                        *)
C30_AssignStoresGivenDueDate ==
    [][\A r \in inflight :
          (/\ calls' = calls
           /\ inflight' = inflight \ {r}
           /\ r.op = "assign"
           /\ last'.result = Ok)
          => LET rec == MOCK_DEFECTS'[r.id]
             IN  /\ rec.due_date = r.due_date
                 /\ r.due_date = None
                       => /\ rec.days_remaining = None
                          /\ rec.is_overdue = FALSE]_vars

(* The first accepted call on the shipped defect, which is due in seven    *)
(* days, was an assignment made without a due date: the defect has none.   *)
C30_Witness ==
    /\ last.op = "assign"
    /\ last.result = Ok
    /\ last.at = Some(0)
    /\ MockDefect1.due_date # None
    /\ MOCK_DEFECTS[last.id].due_date = None
    /\ MOCK_DEFECTS[last.id].days_remaining = None
    /\ ~MOCK_DEFECTS[last.id].is_overdue

====
